---- MODULE Spec2Model ----
(***************************************************************************)
(* Model of the script-execution engine of app/script_runner.py:           *)
(* safe_script_runner, ScriptRunner.execute_script and                     *)
(* ScriptRunner.execute_file, together with the pieces of the operating    *)
(* system they act on (temporary files, the child process, the deadline).  *)
(* Every call is a little sequential process; calls may run concurrently.  *)
(***************************************************************************)
EXTENDS Integers, Sequences, FiniteSets, TLC

VARIABLES
    pc,         \* pc[r]: position of call r in the code
    call,       \* call[r]: entry point and arguments of call r
    temp,       \* temp[r]: name of the temporary file call r created ("" if none)
    proc,       \* proc[r]: the child process of call r
    pending,    \* pending[r]: value of the return statement, before `finally`
    ret,        \* ret[r]: value handed to the caller of call r
    raised,     \* raised[r]: exception that left call r towards its caller
    fs,         \* the file system: path -> [exists, data]
    obs,        \* obs[r]: what a test double would have recorded about call r
    caller,     \* caller[r]: the CLI command or web request that made call r
    todos_json, \* the file ../todos.json of storage.py
    tmpfiles,   \* tmpfiles[w]: the todos_*.tmp file thread w created in save_todos
    fdtable,    \* the file descriptors of the process: number -> owning thread
    worker,     \* worker[w]: thread w inside save_todos or load_todos
    response    \* the answer to the latest request to the todo API

\* the script engine with its callers, and the todo store
engine == <<pc, call, temp, proc, pending, ret, raised, fs, obs, caller>>
storage == <<todos_json, tmpfiles, fdtable, worker, response>>

vars == <<engine, storage>>

----------------------------------------------------------------------------
(* Bounds of the model *)

NRuns == 1          \* number of calls that may be in flight together
MaxTimeout == 2     \* timeouts range over 1..MaxTimeout
MaxExit == 1        \* exit codes range over -1..MaxExit
MaxTodos == 3       \* ids of todos range over 1..MaxTodos

Runs == 1..NRuns
\* one call more, for the calls that run side by side
ConcRuns == 1..(NRuns + 1)
Timeouts == 1..MaxTimeout
\* -1 is the return code Popen reports for a child that died of signal 1
ExitCodes == -1..MaxExit

\* return code Popen reports for a child that died of SIGKILL
SIGKILLED == -9

Entries == {"safe_script_runner", "execute_script", "execute_file"}
Scripts == {"raise ValueError('boom')"}
\* script_name: the default of the signature for the first call, a custom
\* name of its own for every further call
ScriptName(r) ==
    IF r = 1 THEN "script.py" ELSE "my_custom_script" \o ToString(r) \o ".py"
\* what a child may have written to its two pipes when it terminates
Outputs == {[stdout |-> "hi\n", stderr |-> ""],
            [stdout |-> "Starting script\n",
             stderr |-> "Traceback: ValueError: boom\n"]}

TempPath(i) == "/tmp/tmp" \o ToString(i) \o ".py"
TempPaths == {TempPath(i) : i \in ConcRuns}
ExistingFile == "/scripts/hello.py"
MissingFile == "/does/not/exist.py"
UserPaths == {ExistingFile, MissingFile}

\* the script names a command or a request may carry, and the workspace
\* directory they are looked up in
RequestedNames ==
    {"hello_world", "verify_hello_world", "test_app", "test_missing", "app", "nope"}
OnDisk == {"hello_world", "test_app", "app"}
ScriptFile(name) == name \o ".py"
ScriptPath(name) == "/workspace/" \o ScriptFile(name)
WorkspacePaths == {ScriptPath(n) : n \in RequestedNames}

Paths == TempPaths \cup UserPaths \cup WorkspacePaths

Absent == [exists |-> FALSE, data |-> ""]
File(d) == [exists |-> TRUE, data |-> d]

\* the files that exist before any call
InitialFiles ==
    [p \in Paths |->
        IF p = ExistingFile THEN File("print('hi')")
        ELSE IF p \in {ScriptPath(n) : n \in OnDisk}
             THEN File("print('Hello, World!')")
             ELSE Absent]

----------------------------------------------------------------------------
(* Exceptions *)

Exc(t, d) == [type |-> t, detail |-> d]
NoExc == Exc("None", "")

ENOSPC == Exc("OSError", "[Errno 28] No space left on device")
ENOENT == Exc("FileNotFoundError", "[Errno 2] No such file or directory")
EACCES == Exc("PermissionError", "[Errno 13] Permission denied")
EDECODE == Exc("UnicodeDecodeError", "invalid start byte")

CreateErrors == {ENOSPC, ENOENT}     \* NamedTemporaryFile(...) fails
WriteErrors == {ENOSPC}              \* temp_file.write / close fails
LaunchErrors == {EACCES}             \* Popen cannot start the interpreter
CaptureErrors == {EDECODE}           \* the captured bytes cannot be decoded
ReadErrors == {EACCES}               \* open(file_path) / file.read() fails

----------------------------------------------------------------------------
(* Python values *)

None == <<>>
Some(s) == <<s>>

NoResult == [status |-> "<no result>"]
NoCall == [entry |-> "<no call>"]
\* the engine was called directly, by no command and no request
NoReply == [kind |-> "<no reply>"]
NoCaller == [layer |-> "none", name |-> "", reply |-> NoReply]
\* stdin: what the child's standard input is connected to; input: what its
\* attempt to read from it has come to
NoProc == [state |-> "none", returncode |-> 0, stdout |-> "", stderr |-> "",
           path |-> "", src |-> "", stdin |-> "", input |-> "none"]

CoreKeys == {"status", "stdout", "stderr", "return_code", "error_message"}
Core(res) == [k \in CoreKeys |-> res[k]]

\* os.path.basename
Basename(path) ==
    LET seps == {i \in 1..Len(path) : SubSeq(path, i, i) = "/"}
        last == IF seps = {} THEN 0
                ELSE CHOOSE i \in seps : \A j \in seps : j <= i
    IN SubSeq(path, last + 1, Len(path))

Contains(s, sub) ==
    \E i \in 1..(Len(s) - Len(sub) + 1) : SubSeq(s, i, i + Len(sub) - 1) = sub

----------------------------------------------------------------------------
(* Result dictionaries built by safe_script_runner *)

Str(e) == e.detail

\* round(time.time() - start_time, 3): the clock is not modelled
ExecutionTime == "round(execution_time, 3)"

safe_status_nonneg(returncode) == IF returncode >= 0 THEN "success" ELSE "error"

safe_status(returncode) == IF returncode = 0 THEN "success" ELSE "error"

safe_error_message_synth(returncode, stderr) ==
    IF returncode # 0
    THEN Some("Script exited with code " \o ToString(returncode))
    ELSE None

safe_error_message(returncode, stderr) ==
    IF returncode # 0 THEN Some(stderr) ELSE None

safe_completed_exit1(p) ==
    [status |-> safe_status(p.returncode),
     stdout |-> p.stdout,
     stderr |-> p.stderr,
     return_code |-> IF p.returncode = 0 THEN 0 ELSE 1,
     error_message |-> safe_error_message(p.returncode, p.stderr),
     execution_time |-> ExecutionTime]

safe_completed(p) ==
    [status |-> safe_status(p.returncode),
     stdout |-> p.stdout,
     stderr |-> p.stderr,
     return_code |-> p.returncode,
     error_message |-> safe_error_message(p.returncode, p.stderr),
     execution_time |-> ExecutionTime]

DefaultTimeout == 30

safe_timeout_message_default(timeout) ==
    "Script execution timed out after " \o ToString(DefaultTimeout) \o " seconds"

safe_timeout_message(timeout) ==
    "Script execution timed out after " \o ToString(timeout) \o " seconds"

safe_timed_out(timeout) ==
    [status |-> "error",
     stdout |-> "",
     stderr |-> safe_timeout_message(timeout),
     return_code |-> -1,
     error_message |-> Some(safe_timeout_message(timeout)),
     execution_time |-> ExecutionTime]

safe_failed_no_detail(e) ==
    [status |-> "error",
     stdout |-> "",
     stderr |-> "",
     return_code |-> -1,
     error_message |-> Some("Failed to execute script"),
     execution_time |-> ExecutionTime]

safe_failed(e) ==
    [status |-> "error",
     stdout |-> "",
     stderr |-> Str(e),
     return_code |-> -1,
     error_message |-> Some("Failed to execute script: " \o Str(e)),
     execution_time |-> ExecutionTime]

----------------------------------------------------------------------------
(* Result dictionaries built by ScriptRunner *)

execute_script_status(returncode) == IF returncode = 0 THEN "success" ELSE "error"

execute_script_error_message_always(returncode, stderr) == Some(stderr)

execute_script_error_message(returncode, stderr) ==
    IF returncode # 0 THEN Some(stderr) ELSE None

execute_script_completed(p) ==
    [status |-> execute_script_status(p.returncode),
     stdout |-> p.stdout,
     stderr |-> p.stderr,
     return_code |-> p.returncode,
     error_message |-> execute_script_error_message(p.returncode, p.stderr)]

execute_script_timeout_message(timeout) ==
    "Script execution timed out after " \o ToString(timeout) \o " seconds"

execute_script_timed_out(timeout) ==
    [status |-> "error",
     stdout |-> "",
     stderr |-> execute_script_timeout_message(timeout),
     return_code |-> -1,
     error_message |-> Some(execute_script_timeout_message(timeout))]

execute_script_failed(e) ==
    [status |-> "error",
     stdout |-> "",
     stderr |-> Str(e),
     return_code |-> -1,
     error_message |-> Some("Failed to execute script: " \o Str(e))]

execute_file_not_found_no_streams(file_path) ==
    [status |-> "error",
     return_code |-> -1,
     error_message |-> Some("File not found: " \o file_path)]

execute_file_not_found_as_read_error(file_path) ==
    [status |-> "error",
     stdout |-> "",
     stderr |-> "[Errno 2] No such file or directory: " \o file_path,
     return_code |-> -1,
     error_message |-> Some("Failed to read file: [Errno 2] No such file or directory: "
                            \o file_path)]

execute_file_not_found(file_path) ==
    [status |-> "error",
     stdout |-> "",
     stderr |-> "File not found: " \o file_path,
     return_code |-> -1,
     error_message |-> Some("File not found: " \o file_path)]

execute_file_failed(e) ==
    [status |-> "error",
     stdout |-> "",
     stderr |-> Str(e),
     return_code |-> -1,
     error_message |-> Some("Failed to read file: " \o Str(e))]

----------------------------------------------------------------------------
(* The three outcomes of the try block, by entry point *)

IsSafe(r) == call[r].entry = "safe_script_runner"

Completed(r, p) ==
    IF IsSafe(r) THEN safe_completed(p) ELSE execute_script_completed(p)

TimedOut_named(r) ==
    [(IF IsSafe(r) THEN safe_timed_out(call[r].timeout)
      ELSE execute_script_timed_out(call[r].timeout))
        EXCEPT !.error_message =
            Some(call[r].script_name \o " timed out after "
                 \o ToString(call[r].timeout) \o " seconds")]

TimedOut(r) ==
    IF IsSafe(r) THEN safe_timed_out(call[r].timeout)
    ELSE execute_script_timed_out(call[r].timeout)

Failed(r, e) ==
    IF IsSafe(r) THEN safe_failed(e) ELSE execute_script_failed(e)

----------------------------------------------------------------------------
(* Operating system and library steps *)

\* tempfile's unique-name allocation: a name no existing file has
mkstemp_fixed(files) == TempPath(1)

mkstemp(files) ==
    TempPath(CHOOSE i \in ConcRuns :
                /\ ~files[TempPath(i)].exists
                /\ \A j \in ConcRuns : ~files[TempPath(j)].exists => i <= j)

\* Popen: the interpreter starts on the staged file
\* (no stdin argument: the child inherits the standard input of the caller)
spawn(path, files) ==
    [state |-> "running", returncode |-> 0, stdout |-> "", stderr |-> "",
     path |-> path, src |-> files[path].data,
     stdin |-> "inherited", input |-> "none"]

\* communicate() returns normally only while it is still waiting
exit_observable_late(pcv, p) ==
    pcv \in {"wait", "reap"} /\ p.state = "exited"

exit_observable(pcv, p) == pcv = "wait" /\ p.state = "exited"

\* process.kill(): SIGKILL reaches a child that is still running
kill(p) ==
    IF p.state = "running"
    THEN [p EXCEPT !.state = "killed", !.returncode = SIGKILLED]
    ELSE p

wait_skipped(p) == p

\* process.wait(): the terminated child is reaped
wait(p) == [p EXCEPT !.state = "reaped"]

\* try: os.unlink(...) except OSError: pass -- the return value is kept
finally_unlink_escalates(value, unlink_error) ==
    IF unlink_error = NoExc THEN value
    ELSE [status |-> "error", stdout |-> "", stderr |-> Str(unlink_error),
          return_code |-> -1,
          error_message |-> Some("Failed to execute script: " \o Str(unlink_error))]

finally_unlink(value, unlink_error) == value

UnlinkErrors == {Exc("OSError", "Cleanup failed")}

NoObs == [created |-> 0, unlinked |-> 0, unlink_calls |-> 0,
          unlink_failed |-> FALSE, waited |-> FALSE, kill_issued |-> FALSE,
          outcome |-> "none", detail |-> ""]

----------------------------------------------------------------------------
(* Initial state: no call in flight, one script on disk *)

\* the threads of the process that use storage.py at the same time, and the
\* descriptor numbers they can be given (0, 1 and 2 are taken)
Threads == 1..(NRuns + 1)
Fds == 3..(NRuns + 3)

\* a file of the todo store: the todos written to it so far, and whether the
\* JSON text is complete
NoFile == [exists |-> FALSE, text |-> <<>>, complete |-> FALSE]
Written(todos, complete) == [exists |-> TRUE, text |-> todos, complete |-> complete]

NoWorker ==
    [op |-> "none", pc |-> "idle", todos |-> <<>>, temp_fd |-> 0,
     temp_path |-> FALSE, fd |-> 0, content |-> NoFile, result |-> <<>>,
     raised |-> FALSE, candidates |-> {}, closed_unowned |-> FALSE]

NoResponse == [status_code |-> 0]

\* no todos.json yet, no thread inside storage.py, no request answered
InitStorage ==
    /\ todos_json = NoFile
    /\ tmpfiles = [w \in Threads |-> NoFile]
    /\ fdtable = [n \in Fds |-> 0]
    /\ worker = [w \in Threads |-> NoWorker]
    /\ response = NoResponse

Init ==
    /\ pc = [r \in Runs |-> "idle"]
    /\ call = [r \in Runs |-> NoCall]
    /\ temp = [r \in Runs |-> ""]
    /\ proc = [r \in Runs |-> NoProc]
    /\ pending = [r \in Runs |-> NoResult]
    /\ ret = [r \in Runs |-> NoResult]
    /\ raised = [r \in Runs |-> NoExc]
    /\ fs = InitialFiles
    /\ obs = [r \in Runs |-> NoObs]
    /\ caller = [r \in Runs |-> NoCaller]
    /\ InitStorage

----------------------------------------------------------------------------
(* Calls *)

\* safe_script_runner(script_content, timeout)
CallSafe(r) ==
    /\ pc[r] = "idle"
    /\ \E c \in Scripts, t \in Timeouts :
          call' = [call EXCEPT ![r] = [entry |-> "safe_script_runner",
                                       script_content |-> c, timeout |-> t,
                                       script_name |-> "script.py",
                                       file_path |-> ""]]
    /\ pc' = [pc EXCEPT ![r] = "create"]
    /\ UNCHANGED <<temp, proc, pending, ret, raised, fs, obs>>
    /\ UNCHANGED caller
    /\ UNCHANGED storage

\* ScriptRunner(timeout).execute_script(script_content)
CallExecuteScript(r) ==
    /\ pc[r] = "idle"
    /\ \E c \in Scripts, t \in Timeouts :
          call' = [call EXCEPT ![r] = [entry |-> "execute_script",
                                       script_content |-> c, timeout |-> t,
                                       script_name |-> "script.py",
                                       file_path |-> ""]]
    /\ pc' = [pc EXCEPT ![r] = "create"]
    /\ UNCHANGED <<temp, proc, pending, ret, raised, fs, obs>>
    /\ UNCHANGED caller
    /\ UNCHANGED storage

\* ScriptRunner(timeout).execute_file(file_path)
CallExecuteFile(r) ==
    /\ pc[r] = "idle"
    /\ \E f \in UserPaths, t \in Timeouts :
          call' = [call EXCEPT ![r] = [entry |-> "execute_file",
                                       script_content |-> "", timeout |-> t,
                                       script_name |-> "",
                                       file_path |-> f]]
    /\ pc' = [pc EXCEPT ![r] = "read"]
    /\ UNCHANGED <<temp, proc, pending, ret, raised, fs, obs>>
    /\ UNCHANGED caller
    /\ UNCHANGED storage

\* execute_file: open(file_path) and file.read(), then execute_script
ReadFile(r) ==
    /\ pc[r] = "read"
    /\ LET f == call[r].file_path IN
       \/ /\ ~fs[f].exists
          /\ ret' = [ret EXCEPT ![r] = execute_file_not_found(f)]
          /\ pc' = [pc EXCEPT ![r] = "done"]
          /\ obs' = [obs EXCEPT ![r].outcome = "not_found"]
          /\ UNCHANGED call
       \/ /\ fs[f].exists
          /\ \E e \in ReadErrors :
                /\ ret' = [ret EXCEPT ![r] = execute_file_failed(e)]
                /\ obs' = [obs EXCEPT ![r].outcome = "read_failed",
                                      ![r].detail = Str(e)]
          /\ pc' = [pc EXCEPT ![r] = "done"]
          /\ UNCHANGED call
       \/ /\ fs[f].exists
          /\ call' = [call EXCEPT ![r].script_content = fs[f].data,
                                   ![r].script_name = Basename(f)]
          /\ pc' = [pc EXCEPT ![r] = "create"]
          /\ UNCHANGED <<ret, obs>>
    /\ UNCHANGED <<temp, proc, pending, raised, fs>>
    /\ UNCHANGED caller
    /\ UNCHANGED storage

\* An exception that leaves the `with NamedTemporaryFile` block: the block is
\* outside the try, so the exception leaves safe_script_runner and
\* execute_script; execute_file catches what execute_script raises.
StagingRaises(r, e) ==
    /\ pc' = [pc EXCEPT ![r] = "done"]
    /\ IF call[r].entry = "execute_file"
       THEN /\ ret' = [ret EXCEPT ![r] =
                         IF e.type = "FileNotFoundError"
                         THEN execute_file_not_found(call[r].file_path)
                         ELSE execute_file_failed(e)]
            /\ UNCHANGED raised
       ELSE /\ raised' = [raised EXCEPT ![r] = e]
            /\ UNCHANGED ret

\* CreateTemp, except that execute_file stages nothing and runs file_path itself
CreateTemp_in_place(r) ==
    /\ pc[r] = "create"
    /\ \/ /\ call[r].entry = "execute_file"
          /\ temp' = [temp EXCEPT ![r] = call[r].file_path]
          /\ pc' = [pc EXCEPT ![r] = "launch"]
          /\ UNCHANGED <<ret, raised, fs, obs>>
       \/ /\ call[r].entry # "execute_file"
          /\ LET path == mkstemp(fs) IN
               /\ fs' = [fs EXCEPT ![path] = File("")]
               /\ temp' = [temp EXCEPT ![r] = path]
          /\ obs' = [obs EXCEPT ![r].created = @ + 1]
          /\ pc' = [pc EXCEPT ![r] = "write"]
          /\ UNCHANGED <<ret, raised>>
       \/ /\ \E e \in CreateErrors :
                /\ StagingRaises(r, e)
                /\ obs' = [obs EXCEPT ![r].outcome = "create_failed",
                                      ![r].detail = Str(e)]
          /\ UNCHANGED <<temp, fs>>
    /\ UNCHANGED <<call, proc, pending>>
    /\ UNCHANGED caller
    /\ UNCHANGED storage

\* with tempfile.NamedTemporaryFile(mode='w', suffix='.py', delete=False)
CreateTemp(r) ==
    /\ pc[r] = "create"
    /\ \/ /\ LET path == mkstemp(fs) IN
               /\ fs' = [fs EXCEPT ![path] = File("")]
               /\ temp' = [temp EXCEPT ![r] = path]
          /\ obs' = [obs EXCEPT ![r].created = @ + 1]
          /\ pc' = [pc EXCEPT ![r] = "write"]
          /\ UNCHANGED <<ret, raised>>
       \/ /\ \E e \in CreateErrors :
                /\ StagingRaises(r, e)
                /\ obs' = [obs EXCEPT ![r].outcome = "create_failed",
                                      ![r].detail = Str(e)]
          /\ UNCHANGED <<temp, fs>>
    /\ UNCHANGED <<call, proc, pending>>
    /\ UNCHANGED caller
    /\ UNCHANGED storage

\* WriteTemp, except that the text stays in the buffer of the open file
WriteTemp_unflushed(r) ==
    /\ pc[r] = "write"
    /\ \/ /\ pc' = [pc EXCEPT ![r] = "launch"]
          /\ UNCHANGED <<ret, raised, obs, fs>>
       \/ /\ \E e \in WriteErrors :
                /\ StagingRaises(r, e)
                /\ obs' = [obs EXCEPT ![r].outcome = "write_failed",
                                      ![r].detail = Str(e)]
          /\ UNCHANGED fs
    /\ UNCHANGED <<call, temp, proc, pending>>
    /\ UNCHANGED caller
    /\ UNCHANGED storage

\* temp_file.write(script_content); the file is closed when the block ends
WriteTemp(r) ==
    /\ pc[r] = "write"
    /\ \/ /\ fs' = [fs EXCEPT ![temp[r]] = File(call[r].script_content)]
          /\ pc' = [pc EXCEPT ![r] = "launch"]
          /\ UNCHANGED <<ret, raised, obs>>
       \/ /\ \E e \in WriteErrors :
                /\ StagingRaises(r, e)
                /\ obs' = [obs EXCEPT ![r].outcome = "write_failed",
                                      ![r].detail = Str(e)]
          /\ UNCHANGED fs
    /\ UNCHANGED <<call, temp, proc, pending>>
    /\ UNCHANGED caller
    /\ UNCHANGED storage

\* subprocess.run: Popen([sys.executable, temp_file_path], ...)
Launch(r) ==
    /\ pc[r] = "launch"
    /\ \/ /\ proc' = [proc EXCEPT ![r] = spawn(temp[r], fs)]
          /\ pc' = [pc EXCEPT ![r] = "wait"]
          /\ obs' = [obs EXCEPT ![r].waited = TRUE]
          /\ UNCHANGED pending
       \/ /\ \E e \in LaunchErrors :
                /\ pending' = [pending EXCEPT ![r] = Failed(r, e)]
                /\ obs' = [obs EXCEPT ![r].outcome = "launch_failed",
                                      ![r].detail = Str(e)]
          /\ pc' = [pc EXCEPT ![r] = "cleanup"]
          /\ UNCHANGED proc
    /\ UNCHANGED <<call, temp, ret, raised, fs>>
    /\ UNCHANGED caller
    /\ UNCHANGED storage

\* the child terminates on its own
ChildExit(r) ==
    /\ proc[r].state = "running"
    /\ \E n \in ExitCodes, o \in Outputs :
          proc' = [proc EXCEPT ![r].state = "exited", ![r].returncode = n,
                               ![r].stdout = o.stdout, ![r].stderr = o.stderr]
    /\ UNCHANGED <<pc, call, temp, pending, ret, raised, fs, obs>>
    /\ UNCHANGED caller
    /\ UNCHANGED storage

\* subprocess.run returns a CompletedProcess
ObserveExit(r) ==
    /\ exit_observable(pc[r], proc[r])
    /\ proc' = [proc EXCEPT ![r] = wait(@)]
    /\ pending' = [pending EXCEPT ![r] = Completed(r, proc[r])]
    /\ obs' = [obs EXCEPT ![r].outcome = "completed"]
    /\ pc' = [pc EXCEPT ![r] = "cleanup"]
    /\ UNCHANGED <<call, temp, ret, raised, fs>>
    /\ UNCHANGED caller
    /\ UNCHANGED storage

\* subprocess.run raises while collecting the output (text=True decoding):
\* its handler kills and Popen.__exit__ reaps the child
CaptureFails(r) ==
    /\ exit_observable(pc[r], proc[r])
    /\ proc' = [proc EXCEPT ![r] = wait(kill(@))]
    /\ \E e \in CaptureErrors :
          /\ pending' = [pending EXCEPT ![r] = Failed(r, e)]
          /\ obs' = [obs EXCEPT ![r].outcome = "capture_failed",
                                ![r].detail = Str(e)]
    /\ pc' = [pc EXCEPT ![r] = "cleanup"]
    /\ UNCHANGED <<call, temp, ret, raised, fs>>
    /\ UNCHANGED caller
    /\ UNCHANGED storage

\* timeout=None: communicate() waits for the child without a deadline
DeadlineFires_never(r) ==
    /\ FALSE
    /\ UNCHANGED vars

\* communicate(timeout=...) raises TimeoutExpired
DeadlineFires(r) ==
    /\ pc[r] = "wait"
    /\ pc' = [pc EXCEPT ![r] = "kill"]
    /\ UNCHANGED <<call, temp, proc, pending, ret, raised, fs, obs>>
    /\ UNCHANGED caller
    /\ UNCHANGED storage

\* subprocess.run, except TimeoutExpired: process.kill()
Kill(r) ==
    /\ pc[r] = "kill"
    /\ proc' = [proc EXCEPT ![r] = kill(@)]
    /\ obs' = [obs EXCEPT ![r].kill_issued = TRUE]
    /\ pc' = [pc EXCEPT ![r] = "reap"]
    /\ UNCHANGED <<call, temp, pending, ret, raised, fs>>
    /\ UNCHANGED caller
    /\ UNCHANGED storage

\* subprocess.run: process.wait(); raise -- caught by except TimeoutExpired
Reap(r) ==
    /\ pc[r] = "reap"
    /\ proc' = [proc EXCEPT ![r] = wait(@)]
    /\ pending' = [pending EXCEPT ![r] = TimedOut(r)]
    /\ obs' = [obs EXCEPT ![r].outcome = "timeout"]
    /\ pc' = [pc EXCEPT ![r] = "cleanup"]
    /\ UNCHANGED <<call, temp, ret, raised, fs>>
    /\ UNCHANGED caller
    /\ UNCHANGED storage

\* finally: os.unlink(temp_file_path), OSError ignored; then the call returns
Cleanup(r) ==
    /\ pc[r] = "cleanup"
    /\ \/ /\ fs' = [fs EXCEPT ![temp[r]] = Absent]
          /\ obs' = [obs EXCEPT ![r].unlink_calls = @ + 1,
                                ![r].unlinked = @ + 1]
          /\ ret' = [ret EXCEPT ![r] = finally_unlink(pending[r], NoExc)]
       \/ /\ \E e \in UnlinkErrors :
                ret' = [ret EXCEPT ![r] = finally_unlink(pending[r], e)]
          /\ obs' = [obs EXCEPT ![r].unlink_calls = @ + 1,
                                ![r].unlink_failed = TRUE]
          /\ UNCHANGED fs
    /\ pc' = [pc EXCEPT ![r] = "done"]
    /\ UNCHANGED <<call, temp, proc, pending, raised>>
    /\ UNCHANGED caller
    /\ UNCHANGED storage

Next ==
    \E r \in Runs :
       \/ CallSafe(r)
       \/ CallExecuteScript(r)
       \/ CallExecuteFile(r)
       \/ ReadFile(r)
       \/ CreateTemp(r)
       \/ WriteTemp(r)
       \/ Launch(r)
       \/ ChildExit(r)
       \/ ObserveExit(r)
       \/ CaptureFails(r)
       \/ DeadlineFires(r)
       \/ Kill(r)
       \/ Reap(r)
       \/ Cleanup(r)

Spec == Init /\ [][Next]_vars

----------------------------------------------------------------------------
(* The callers of the engine: the command line and the web application *)

StartsWith(s, prefix) ==
    Len(s) >= Len(prefix) /\ SubSeq(s, 1, Len(prefix)) = prefix

\* '\n'.join(output)
RECURSIVE Join(_)
Join(lines) ==
    IF lines = <<>> THEN ""
    ELSE IF Len(lines) = 1 THEN lines[1]
    ELSE lines[1] \o "\n" \o Join(Tail(lines))

Exit(code) == [kind |-> "exit", code |-> code]
Http(status_code, body) ==
    [kind |-> "http", status_code |-> status_code, body |-> body]

\* cli.find_python_scripts: the names of the *.py files, test files skipped
find_python_scripts(files) ==
    {n \in RequestedNames :
        files[ScriptPath(n)].exists /\ ~StartsWith(n, "test_")}

cli_exit_code_raw(result) ==
    IF result.status = "error" THEN result.return_code ELSE 0

\* cli.run_script: the return statements after runner.execute_file
cli_exit_code(result) ==
    IF result.status = "error"
    THEN IF result.return_code # -1 THEN result.return_code ELSE 1
    ELSE 0

\* the output list of app.run_script
OutputLines(p) ==
    (IF p.stdout # "" THEN <<p.stdout>> ELSE <<>>)
    \o (IF p.stderr # "" THEN <<"STDERR:\n" \o p.stderr>> ELSE <<>>)

\* app.run_script after subprocess.run returned
run_script_completed(p) ==
    IF p.returncode # 0
    THEN Http(500,
              [error |-> "Script failed with exit code " \o ToString(p.returncode),
               output |-> Join(OutputLines(p) \o
                   <<"Script exited with code: " \o ToString(p.returncode)>>)])
    ELSE Http(200,
              [success |-> TRUE,
               output |-> IF OutputLines(p) # <<>> THEN Join(OutputLines(p))
                          ELSE "Script completed successfully"])

run_script_timed_out ==
    Http(500, [error |-> "Script execution timed out after 30 seconds"])

run_script_failed(e) ==
    Http(500, [error |-> "Internal server error: " \o Str(e)])

\* the execution_result dictionary of app.api_run_script
execution_result(name, p) ==
    LET base == [script_name |-> name,
                 status |-> IF p.returncode = 0 THEN "success" ELSE "error",
                 return_code |-> p.returncode,
                 stdout |-> p.stdout,
                 stderr |-> p.stderr,
                 executed_at |-> "datetime.now().isoformat()"]
    IN IF p.returncode # 0
       THEN base @@ [error_message |->
                        "Script exited with code " \o ToString(p.returncode)]
       ELSE base

api_run_script_completed_strict(name, p) ==
    Http(IF p.returncode # 0 THEN 500 ELSE 200, execution_result(name, p))

\* app.api_run_script after subprocess.run returned: jsonify(execution_result)
api_run_script_completed(name, p) ==
    Http(200, execution_result(name, p))

api_run_script_timed_out(name) ==
    Http(500, [error |-> "Script execution timed out after 30 seconds",
               script_name |-> name, status |-> "timeout"])

api_run_script_failed(name, e) ==
    Http(500, [error |-> "Internal server error: " \o Str(e),
               script_name |-> name, status |-> "error"])

\* cli.run_script up to runner.execute_file(script_path)
CliRunScript(r) ==
    /\ pc[r] = "idle"
    /\ \E n \in RequestedNames :
          IF n \notin find_python_scripts(fs)
          THEN /\ caller' = [caller EXCEPT ![r] =
                                [layer |-> "cli", name |-> n, reply |-> Exit(1)]]
               /\ pc' = [pc EXCEPT ![r] = "exited"]
               /\ UNCHANGED call
          ELSE /\ caller' = [caller EXCEPT ![r] =
                                [layer |-> "cli", name |-> n, reply |-> NoReply]]
               /\ call' = [call EXCEPT ![r] = [entry |-> "execute_file",
                                               script_content |-> "",
                                               timeout |-> DefaultTimeout,
                                               script_name |-> "",
                                               file_path |-> ScriptPath(n)]]
               /\ pc' = [pc EXCEPT ![r] = "read"]
    /\ UNCHANGED <<temp, proc, pending, ret, raised, fs, obs>>
    /\ UNCHANGED storage

\* cli.run_script after runner.execute_file: the exit code of the command
CliReturn(r) ==
    /\ pc[r] = "done"
    /\ caller[r].layer = "cli"
    /\ caller' = [caller EXCEPT ![r].reply =
                     Exit(IF raised[r] # NoExc THEN 1 ELSE cli_exit_code(ret[r]))]
    /\ pc' = [pc EXCEPT ![r] = "exited"]
    /\ UNCHANGED <<call, temp, proc, pending, ret, raised, fs, obs>>
    /\ UNCHANGED storage

\* POST /run/<script_name>, up to the start of the child
RunScriptRequest(r) ==
    /\ pc[r] = "idle"
    /\ \E n \in RequestedNames :
          LET answer(reply) ==
                 /\ caller' = [caller EXCEPT ![r] =
                        [layer |-> "run_script", name |-> n, reply |-> reply]]
                 /\ pc' = [pc EXCEPT ![r] = "exited"]
                 /\ UNCHANGED <<proc, obs>>
          IN IF n \notin {"hello_world", "verify_hello_world"}
             THEN answer(Http(400, [error |-> "Unknown script: " \o n]))
             ELSE IF ~fs[ScriptPath(n)].exists
             THEN answer(Http(404, [error |-> "Script not found: " \o ScriptFile(n)]))
             ELSE \/ /\ caller' = [caller EXCEPT ![r] =
                          [layer |-> "run_script", name |-> n, reply |-> NoReply]]
                     /\ proc' = [proc EXCEPT ![r] = spawn(ScriptPath(n), fs)]
                     /\ pc' = [pc EXCEPT ![r] = "serving"]
                     /\ UNCHANGED obs
                  \/ \E e \in LaunchErrors :
                        /\ caller' = [caller EXCEPT ![r] =
                              [layer |-> "run_script", name |-> n,
                               reply |-> run_script_failed(e)]]
                        /\ pc' = [pc EXCEPT ![r] = "exited"]
                        /\ obs' = [obs EXCEPT ![r].outcome = "launch_failed",
                                              ![r].detail = Str(e)]
                        /\ UNCHANGED proc
    /\ UNCHANGED <<call, temp, pending, ret, raised, fs>>
    /\ UNCHANGED storage

cannot_be_executed_none(name) == FALSE

\* app.api_run_script: the files that shouldn't be run
cannot_be_executed(name) == StartsWith(name, "test_") \/ name = "app"

\* POST /api/scripts/<name>/run, up to the start of the child
ApiRunScriptRequest(r) ==
    /\ pc[r] = "idle"
    /\ \E n \in RequestedNames :
          LET answer(reply) ==
                 /\ caller' = [caller EXCEPT ![r] =
                        [layer |-> "api_run_script", name |-> n, reply |-> reply]]
                 /\ pc' = [pc EXCEPT ![r] = "exited"]
                 /\ UNCHANGED <<proc, obs>>
          IN IF ~fs[ScriptPath(n)].exists
             THEN answer(Http(404, [error |-> "Script not found: " \o ScriptFile(n)]))
             ELSE IF cannot_be_executed(n)
             THEN answer(Http(400, [error |-> "This script cannot be executed via API"]))
             ELSE \/ /\ caller' = [caller EXCEPT ![r] =
                          [layer |-> "api_run_script", name |-> n, reply |-> NoReply]]
                     /\ proc' = [proc EXCEPT ![r] = spawn(ScriptPath(n), fs)]
                     /\ pc' = [pc EXCEPT ![r] = "serving"]
                     /\ UNCHANGED obs
                  \/ \E e \in LaunchErrors :
                        /\ caller' = [caller EXCEPT ![r] =
                              [layer |-> "api_run_script", name |-> n,
                               reply |-> api_run_script_failed(n, e)]]
                        /\ pc' = [pc EXCEPT ![r] = "exited"]
                        /\ obs' = [obs EXCEPT ![r].outcome = "launch_failed",
                                              ![r].detail = Str(e)]
                        /\ UNCHANGED proc
    /\ UNCHANGED <<call, temp, pending, ret, raised, fs>>
    /\ UNCHANGED storage

\* subprocess.run returned in a route: the response for the finished child
WebReturn(r) ==
    /\ pc[r] = "serving"
    /\ proc[r].state = "exited"
    /\ proc' = [proc EXCEPT ![r] = wait(@)]
    /\ caller' = [caller EXCEPT ![r].reply =
                     IF caller[r].layer = "run_script"
                     THEN run_script_completed(proc[r])
                     ELSE api_run_script_completed(caller[r].name, proc[r])]
    /\ obs' = [obs EXCEPT ![r].outcome = "completed"]
    /\ pc' = [pc EXCEPT ![r] = "exited"]
    /\ UNCHANGED <<call, temp, pending, ret, raised, fs>>
    /\ UNCHANGED storage

\* subprocess.run killed and reaped the child and raised TimeoutExpired in a
\* route: the response of the except clause
WebTimeout(r) ==
    /\ pc[r] = "serving"
    /\ proc' = [proc EXCEPT ![r] = wait(kill(@))]
    /\ caller' = [caller EXCEPT ![r].reply =
                     IF caller[r].layer = "run_script"
                     THEN run_script_timed_out
                     ELSE api_run_script_timed_out(caller[r].name)]
    /\ obs' = [obs EXCEPT ![r].outcome = "timeout", ![r].kill_issued = TRUE]
    /\ pc' = [pc EXCEPT ![r] = "exited"]
    /\ UNCHANGED <<call, temp, pending, ret, raised, fs>>
    /\ UNCHANGED storage

NextCallers ==
    \E r \in Runs :
       \/ CliRunScript(r)
       \/ CliReturn(r)
       \/ RunScriptRequest(r)
       \/ ApiRunScriptRequest(r)
       \/ WebReturn(r)
       \/ WebTimeout(r)
       \/ ReadFile(r)
       \/ CreateTemp(r)
       \/ WriteTemp(r)
       \/ Launch(r)
       \/ ChildExit(r)
       \/ ObserveExit(r)
       \/ CaptureFails(r)
       \/ DeadlineFires(r)
       \/ Kill(r)
       \/ Reap(r)
       \/ Cleanup(r)

SpecCallers == Init /\ [][NextCallers]_vars

----------------------------------------------------------------------------
(* A ScriptRunner constructed with any timeout, valid or not *)

\* the values a caller may pass to ScriptRunner(timeout=...)
ConfiguredTimeouts == {-1, 0} \cup Timeouts

\* ScriptRunner.__init__: self.timeout = timeout
ScriptRunner_init(timeout) == timeout

\* ScriptRunner(timeout=t).execute_script(script_content)
CallConfigured(r) ==
    /\ pc[r] = "idle"
    /\ \E c \in Scripts, t \in ConfiguredTimeouts :
          call' = [call EXCEPT ![r] = [entry |-> "execute_script",
                                       script_content |-> c,
                                       configured |-> t,
                                       timeout |-> ScriptRunner_init(t),
                                       script_name |-> "script.py",
                                       file_path |-> ""]]
    /\ pc' = [pc EXCEPT ![r] = "create"]
    /\ UNCHANGED <<temp, proc, pending, ret, raised, fs, obs, caller>>
    /\ UNCHANGED storage

\* communicate(timeout=...) returns the child's output only when the deadline
\* lies in the future: with a timeout of 0 or less it has passed already
ObserveInTime(r) ==
    /\ pc[r] = "wait"
    /\ call[r].timeout > 0
    /\ \/ ObserveExit(r)
       \/ CaptureFails(r)

NextConfigured ==
    \E r \in Runs :
       \/ CallConfigured(r)
       \/ CreateTemp(r)
       \/ WriteTemp(r)
       \/ Launch(r)
       \/ ChildExit(r)
       \/ ObserveInTime(r)
       \/ DeadlineFires(r)
       \/ Kill(r)
       \/ Reap(r)
       \/ Cleanup(r)

SpecConfigured == Init /\ [][NextConfigured]_vars

----------------------------------------------------------------------------
(* A script that reads its standard input *)

\* the child calls input(): on an inherited standard input it waits for the
\* caller's input, on a closed or null one it sees end-of-file at once
ChildReads(r) ==
    /\ proc[r].state = "running"
    /\ proc[r].input = "none"
    /\ proc' = [proc EXCEPT ![r].input =
                   IF proc[r].stdin = "inherited" THEN "blocked" ELSE "eof"]
    /\ UNCHANGED <<pc, call, temp, pending, ret, raised, fs, obs, caller>>
    /\ UNCHANGED storage

\* a line arrives on the caller's standard input and the waiting child takes it
CallerInputArrives(r) ==
    /\ proc[r].state = "running"
    /\ proc[r].input = "blocked"
    /\ proc' = [proc EXCEPT ![r].input = "read"]
    /\ UNCHANGED <<pc, call, temp, pending, ret, raised, fs, obs, caller>>
    /\ UNCHANGED storage

\* the child terminates on its own, which it cannot while it waits for input
ChildExitUnblocked(r) ==
    /\ proc[r].input # "blocked"
    /\ ChildExit(r)

NextInput ==
    \E r \in Runs :
       \/ CallSafe(r)
       \/ CallExecuteScript(r)
       \/ CreateTemp(r)
       \/ WriteTemp(r)
       \/ Launch(r)
       \/ ChildReads(r)
       \/ CallerInputArrives(r)
       \/ ChildExitUnblocked(r)
       \/ ObserveExit(r)
       \/ CaptureFails(r)
       \/ DeadlineFires(r)
       \/ Kill(r)
       \/ Reap(r)
       \/ Cleanup(r)

SpecInput == Init /\ [][NextInput]_vars

----------------------------------------------------------------------------
(* The todo API: one request at a time on the event loop *)

\* titles a request may carry; the empty one fails the validation of TodoBase
Titles == {"buy milk", "call mom"}
TodoIds == 1..MaxTodos

Todo(id, title) == [id |-> id, title |-> title]
Ids(todos) == {todos[i].id : i \in DOMAIN todos}
Max(S) == CHOOSE x \in S : \A y \in S : y <= x

\* storage.load_todos, as a function of what todos.json holds: no file, an
\* empty file and a text that is no JSON all give the empty list
load_todos(file) ==
    IF ~file.exists THEN <<>>
    ELSE IF file.text = <<>> /\ ~file.complete THEN <<>>
    ELSE IF ~file.complete THEN <<>>
    ELSE file.text

next_id_by_count(todos_data) == Len(todos_data) + 1

\* create_todo: max(todo.get('id', 0) for todo in todos_data) + 1, or 1
next_id(todos_data) ==
    IF todos_data # <<>> THEN Max(Ids(todos_data)) + 1 ELSE 1

\* delete_todo: the index of the first todo with the id, 0 if there is none
IndexOf(todos_data, todo_id) ==
    IF todo_id \in Ids(todos_data)
    THEN CHOOSE i \in DOMAIN todos_data :
            /\ todos_data[i].id = todo_id
            /\ \A j \in DOMAIN todos_data : todos_data[j].id = todo_id => i <= j
    ELSE 0

\* todos_data.pop(index)
Pop(todos_data, index) ==
    SubSeq(todos_data, 1, index - 1)
        \o SubSeq(todos_data, index + 1, Len(todos_data))

Answer(op, arg, status_code, body, before) ==
    [op |-> op, arg |-> arg, status_code |-> status_code,
     body |-> body, before |-> before]

NoTodo == Todo(0, "")

\* save_todos as one step of the request: todos.json is replaced by the new
\* list, or save_todos raises and todos.json stays as it was
SaveOrFail(op, arg, todos_data, after, ok, body) ==
    \/ /\ todos_json' = Written(after, TRUE)
       /\ response' = Answer(op, arg, ok, body, todos_data)
    \/ /\ UNCHANGED todos_json
       /\ response' = Answer(op, arg, 500, NoTodo, todos_data)

\* POST /api/todos
CreateTodo ==
    /\ \E title \in Titles \cup {""} :
          LET todos_data == load_todos(todos_json)
              new_todo == Todo(next_id(todos_data), title)
          IN IF title = ""
             THEN /\ response' = Answer("create_todo", Todo(0, title), 422,
                                        NoTodo, todos_data)
                  /\ UNCHANGED todos_json
             ELSE /\ new_todo.id <= MaxTodos
                  /\ SaveOrFail("create_todo", Todo(0, title), todos_data,
                                Append(todos_data, new_todo), 201, new_todo)
    /\ UNCHANGED <<engine, tmpfiles, fdtable, worker>>

\* DELETE /api/todos/{todo_id}
DeleteTodo ==
    /\ \E todo_id \in {0} \cup TodoIds :
          LET todos_data == load_todos(todos_json)
              index == IndexOf(todos_data, todo_id)
          IN IF todo_id < 1
             THEN /\ response' = Answer("delete_todo", Todo(todo_id, ""), 422,
                                        NoTodo, todos_data)
                  /\ UNCHANGED todos_json
             ELSE IF index # 0
             THEN SaveOrFail("delete_todo", Todo(todo_id, ""), todos_data,
                             Pop(todos_data, index), 204, NoTodo)
             ELSE /\ response' = Answer("delete_todo", Todo(todo_id, ""), 404,
                                        NoTodo, todos_data)
                  /\ UNCHANGED todos_json
    /\ UNCHANGED <<engine, tmpfiles, fdtable, worker>>

NextTodos ==
    \/ CreateTodo
    \/ DeleteTodo

SpecTodos == Init /\ [][NextTodos]_vars

----------------------------------------------------------------------------
(* storage.py under threads: save_todos and load_todos statement by statement *)

\* the lists a thread may save
TodoLists ==
    {<<Todo(1, "buy milk")>>, <<Todo(1, "buy milk"), Todo(2, "call mom")>>}

\* the descriptor number the kernel hands out: the lowest one that is free
LowestFree(table) ==
    CHOOSE n \in Fds : table[n] = 0 /\ \A m \in Fds : table[m] = 0 => n <= m

\* the threads that are inside load_todos
Loading == {u \in Threads : worker[u].op = "load" /\ worker[u].pc # "done"}

\* a thread calls save_todos(todos); json.dumps(todos) succeeds
SaveTodos(w) ==
    /\ worker[w].pc = "idle"
    /\ \E todos \in TodoLists :
          worker' = [worker EXCEPT ![w].op = "save", ![w].todos = todos,
                                   ![w].pc = "mkstemp"]
    /\ UNCHANGED <<engine, todos_json, tmpfiles, fdtable, response>>

\* temp_fd, temp_path = tempfile.mkstemp(...), or OSError: nothing to clean up
Mkstemp(w) ==
    /\ worker[w].pc = "mkstemp"
    /\ \/ LET n == LowestFree(fdtable) IN
             /\ fdtable' = [fdtable EXCEPT ![n] = w]
             /\ tmpfiles' = [tmpfiles EXCEPT ![w] = Written(<<>>, FALSE)]
             /\ worker' = [worker EXCEPT ![w].temp_fd = n, ![w].temp_path = TRUE,
                                         ![w].pc = "dump"]
       \/ /\ worker' = [worker EXCEPT ![w].raised = TRUE, ![w].pc = "done"]
          /\ UNCHANGED <<fdtable, tmpfiles>>
    /\ UNCHANGED <<engine, todos_json, response>>

\* json.dump(todos, f, ...): the first part of the text reaches the descriptor
\* temp_fd, whatever file that number stands for by now; or the write fails
\* and the with statement closes the descriptor
Dump(w) ==
    /\ worker[w].pc = "dump"
    /\ LET n == worker[w].temp_fd
           owner == fdtable[n]
           part == SubSeq(worker[w].todos, 1, Len(worker[w].todos) - 1)
       IN \/ /\ owner = w
             /\ tmpfiles' = [tmpfiles EXCEPT ![w] = Written(part, FALSE)]
             /\ worker' = [worker EXCEPT ![w].pc = "close"]
             /\ UNCHANGED fdtable
          \/ /\ owner \notin {0, w}
             /\ worker[owner].op = "save"
             /\ tmpfiles' = [tmpfiles EXCEPT ![owner] =
                                Written(tmpfiles[owner].text, FALSE)]
             /\ worker' = [worker EXCEPT ![w].pc = "close"]
             /\ UNCHANGED fdtable
          \/ /\ IF owner = 0 THEN TRUE
                ELSE owner # w /\ worker[owner].op # "save"
             /\ worker' = [worker EXCEPT ![w].pc = "abort"]
             /\ UNCHANGED <<fdtable, tmpfiles>>
          \/ /\ owner = w
             /\ fdtable' = [fdtable EXCEPT ![n] = 0]
             /\ worker' = [worker EXCEPT ![w].pc = "abort"]
             /\ UNCHANGED tmpfiles
    /\ UNCHANGED <<engine, todos_json, response>>

\* the end of `with os.fdopen(temp_fd, 'w')`: the rest of the text is flushed
\* and the descriptor temp_fd is closed
CloseTemp(w) ==
    /\ worker[w].pc = "close"
    /\ LET n == worker[w].temp_fd IN
          IF fdtable[n] = w
          THEN /\ tmpfiles' = [tmpfiles EXCEPT ![w] = Written(worker[w].todos, TRUE)]
               /\ fdtable' = [fdtable EXCEPT ![n] = 0]
               /\ worker' = [worker EXCEPT ![w].pc = "replace"]
          ELSE /\ worker' = [worker EXCEPT ![w].pc = "abort"]
               /\ UNCHANGED <<tmpfiles, fdtable>>
    /\ UNCHANGED <<engine, todos_json, response>>

\* os.replace(temp_path, '../todos.json'); temp_path = None -- or OSError
Replace(w) ==
    /\ worker[w].pc = "replace"
    /\ \/ /\ todos_json' = tmpfiles[w]
          /\ tmpfiles' = [tmpfiles EXCEPT ![w] = NoFile]
          /\ worker' = [u \in Threads |->
                IF u = w
                THEN [worker[u] EXCEPT !.temp_path = FALSE, !.pc = "finally"]
                ELSE IF u \in Loading
                THEN [worker[u] EXCEPT !.candidates =
                                          @ \cup {load_todos(tmpfiles[w])}]
                ELSE worker[u]]
       \/ /\ worker' = [worker EXCEPT ![w].pc = "abort"]
          /\ UNCHANGED <<todos_json, tmpfiles>>
    /\ UNCHANGED <<engine, fdtable, response>>

\* except Exception: unlink the temporary file if there is one; raise
Abort(w) ==
    /\ worker[w].pc = "abort"
    /\ tmpfiles' = [tmpfiles EXCEPT ![w] = NoFile]
    /\ worker' = [worker EXCEPT ![w].raised = TRUE, ![w].pc = "finally"]
    /\ UNCHANGED <<engine, todos_json, fdtable, response>>

\* finally: temp_fd is not None, so os.close(temp_fd) is called with the
\* number mkstemp returned, and an OSError is ignored
Finally(w) ==
    /\ worker[w].pc = "finally"
    /\ LET n == worker[w].temp_fd IN
          /\ fdtable' = [fdtable EXCEPT ![n] = 0]
          /\ worker' = [worker EXCEPT ![w].closed_unowned = (fdtable[n] # w),
                                      ![w].pc = "done"]
    /\ UNCHANGED <<engine, todos_json, tmpfiles, response>>

\* a thread calls load_todos()
LoadTodos(w) ==
    /\ worker[w].pc = "idle"
    /\ worker' = [worker EXCEPT ![w].op = "load", ![w].pc = "exists",
                                ![w].candidates = {load_todos(todos_json)}]
    /\ UNCHANGED <<engine, todos_json, tmpfiles, fdtable, response>>

\* if not os.path.exists('../todos.json'): return []
Exists(w) ==
    /\ worker[w].pc = "exists"
    /\ worker' = [worker EXCEPT ![w].pc =
                     IF todos_json.exists THEN "open" ELSE "done"]
    /\ UNCHANGED <<engine, todos_json, tmpfiles, fdtable, response>>

\* open('../todos.json', 'r'): a descriptor for the file as it is now
Open(w) ==
    /\ worker[w].pc = "open"
    /\ LET n == LowestFree(fdtable) IN
          /\ fdtable' = [fdtable EXCEPT ![n] = w]
          /\ worker' = [worker EXCEPT ![w].fd = n, ![w].content = todos_json,
                                      ![w].pc = "read"]
    /\ UNCHANGED <<engine, todos_json, tmpfiles, response>>

\* content = f.read(); json.loads(content): the read goes to the descriptor
\* number of f, whatever became of it: closed (OSError, [] is returned), or
\* given to another thread (that thread's file is read, from its position)
Read(w) ==
    /\ worker[w].pc = "read"
    /\ LET owner == fdtable[worker[w].fd] IN
          \/ /\ owner = w
             /\ worker' = [worker EXCEPT ![w].result = load_todos(worker[w].content),
                                         ![w].pc = "closing"]
          \/ /\ owner = 0
             /\ worker' = [worker EXCEPT ![w].result = <<>>, ![w].pc = "done"]
          \/ /\ owner \notin {0, w}
             /\ \E seen \in {NoFile, worker[owner].content} :
                   worker' = [worker EXCEPT ![w].result = load_todos(seen),
                                            ![w].pc = "closing"]
    /\ UNCHANGED <<engine, todos_json, tmpfiles, fdtable, response>>

\* the end of `with open(...) as f`: f is closed; an OSError of the close
\* replaces the return value by []
CloseRead(w) ==
    /\ worker[w].pc = "closing"
    /\ LET n == worker[w].fd IN
          /\ fdtable' = [fdtable EXCEPT ![n] = 0]
          /\ worker' = [worker EXCEPT ![w].result =
                                         IF fdtable[n] = 0 THEN <<>> ELSE @,
                                      ![w].pc = "done"]
    /\ UNCHANGED <<engine, todos_json, tmpfiles, response>>

NextStorage ==
    \E w \in Threads :
       \/ SaveTodos(w)
       \/ Mkstemp(w)
       \/ Dump(w)
       \/ CloseTemp(w)
       \/ Replace(w)
       \/ Abort(w)
       \/ Finally(w)
       \/ LoadTodos(w)
       \/ Exists(w)
       \/ Open(w)
       \/ Read(w)
       \/ CloseRead(w)

SpecStorage == Init /\ [][NextStorage]_vars

----------------------------------------------------------------------------
(* Progress of the calling thread *)

\* a step of the thread that executes call r: every statement of the engine
\* returns or raises by itself, and communicate(timeout=...) gives up at the
\* deadline at the latest.  The child's own exit is no step of the caller.
ThreadStep(r) ==
    \/ ReadFile(r)
    \/ CreateTemp(r)
    \/ WriteTemp(r)
    \/ Launch(r)
    \/ ObserveExit(r)
    \/ CaptureFails(r)
    \/ DeadlineFires(r)
    \/ Kill(r)
    \/ Reap(r)
    \/ Cleanup(r)

\* the child terminates on its own: clean exit, or exit 1 after a traceback
ChildExitPlain(r) ==
    /\ ChildExit(r)
    /\ \/ /\ proc'[r].returncode = 0
          /\ proc'[r].stderr = ""
       \/ /\ proc'[r].returncode = 1
          /\ proc'[r].stderr # ""

\* a call is made, the caller's thread takes a step, or the child exits
NextLive ==
    \E r \in Runs :
       \/ CallSafe(r)
       \/ CallExecuteScript(r)
       \/ CallExecuteFile(r)
       \/ ThreadStep(r)
       \/ ChildExitPlain(r)

SpecLive == Init /\ [][NextLive]_vars /\ \A r \in Runs : WF_vars(ThreadStep(r))

----------------------------------------------------------------------------
(* Inline calls that run side by side, each with a script_name of its own *)

\* safe_script_runner(script_content, script_name=...): default timeout
CallSafeNamed(r) ==
    /\ pc[r] = "idle"
    /\ \E c \in Scripts :
          call' = [call EXCEPT ![r] = [entry |-> "safe_script_runner",
                                       script_content |-> c,
                                       timeout |-> DefaultTimeout,
                                       script_name |-> ScriptName(r),
                                       file_path |-> ""]]
    /\ pc' = [pc EXCEPT ![r] = "create"]
    /\ UNCHANGED <<temp, proc, pending, ret, raised, fs, obs>>
    /\ UNCHANGED caller
    /\ UNCHANGED storage

\* ScriptRunner().execute_script(script_content, script_name)
CallExecuteScriptNamed(r) ==
    /\ pc[r] = "idle"
    /\ \E c \in Scripts :
          call' = [call EXCEPT ![r] = [entry |-> "execute_script",
                                       script_content |-> c,
                                       timeout |-> DefaultTimeout,
                                       script_name |-> ScriptName(r),
                                       file_path |-> ""]]
    /\ pc' = [pc EXCEPT ![r] = "create"]
    /\ UNCHANGED <<temp, proc, pending, ret, raised, fs, obs>>
    /\ UNCHANGED caller
    /\ UNCHANGED storage

InitConc ==
    /\ pc = [r \in ConcRuns |-> "idle"]
    /\ call = [r \in ConcRuns |-> NoCall]
    /\ temp = [r \in ConcRuns |-> ""]
    /\ proc = [r \in ConcRuns |-> NoProc]
    /\ pending = [r \in ConcRuns |-> NoResult]
    /\ ret = [r \in ConcRuns |-> NoResult]
    /\ raised = [r \in ConcRuns |-> NoExc]
    /\ fs = InitialFiles
    /\ obs = [r \in ConcRuns |-> NoObs]
    /\ caller = [r \in ConcRuns |-> NoCaller]
    /\ InitStorage

NextConc ==
    \E r \in ConcRuns :
       \/ CallSafeNamed(r)
       \/ CallExecuteScriptNamed(r)
       \/ CreateTemp(r)
       \/ WriteTemp(r)
       \/ Launch(r)
       \/ ChildExitPlain(r)
       \/ ObserveExit(r)
       \/ DeadlineFires(r)
       \/ Kill(r)
       \/ Reap(r)
       \/ Cleanup(r)

SpecConc == InitConc /\ [][NextConc]_vars

----------------------------------------------------------------------------
(* Properties *)

Done(r) == pc[r] = "done"
Returned(r) == Done(r) /\ ret[r] # NoResult
Inline(r) == call[r].entry \in {"safe_script_runner", "execute_script"}

TimeoutText(n) == "Script execution timed out after " \o ToString(n) \o " seconds"

\* C1: no call to safe_script_runner, execute_script or execute_file ever
\* raises to its caller; every failure, an I/O error while the temporary
\* file is created or written included, comes back as a result dictionary.
C1_NeverRaises ==
    \A r \in Runs : Done(r) => raised[r] = NoExc /\ ret[r] # NoResult

\* C2: an inline-text call deletes the temporary file it created exactly once
\* and the file is gone when the call is over, on every exit path, an
\* exception while the text is written included (a failing unlink apart).
C2_TempFileRemoved ==
    \A r \in Runs :
        Done(r) /\ Inline(r) /\ obs[r].created = 1 /\ ~obs[r].unlink_failed
            => ~fs[temp[r]].exists /\ obs[r].unlinked = 1

\* C3: a call that reports a timeout has killed and reaped its child before
\* it returned; no returned timeout result coexists with a live child.
C3_TimedOutChildReaped ==
    \A r \in Runs :
        Returned(r) /\ ret[r].error_message = Some(TimeoutText(call[r].timeout))
            => obs[r].kill_issued /\ proc[r].state = "reaped"

C3_Witness ==
    \E r \in Runs :
        /\ Returned(r)
        /\ ret[r].error_message = Some(TimeoutText(call[r].timeout))
        /\ proc[r].returncode = SIGKILLED
        /\ proc[r].state = "reaped"

\* C4: the exit wins only when it was observed before the kill was issued,
\* and then the result carries the real exit code and streams; once the kill
\* was issued the result is the timeout result, even when the child had
\* exited on its own; no result mixes the two.
C4_KillDecidesOutcome ==
    \A r \in Runs :
        Returned(r) /\ obs[r].waited =>
            /\ obs[r].outcome = "completed" => ~obs[r].kill_issued
            /\ obs[r].kill_issued =>
                  /\ ret[r].return_code = -1
                  /\ ret[r].stdout = ""
                  /\ ret[r].stderr = TimeoutText(call[r].timeout)
                  /\ ret[r].error_message = Some(TimeoutText(call[r].timeout))
            /\ obs[r].outcome = "completed" =>
                  /\ ret[r].return_code = proc[r].returncode
                  /\ ret[r].stdout = proc[r].stdout
                  /\ ret[r].stderr = proc[r].stderr
                  /\ ret[r].error_message # Some(TimeoutText(call[r].timeout))

C4_Witness ==
    \E r \in Runs :
        /\ Returned(r)
        /\ obs[r].kill_issued
        /\ proc[r].returncode = 0
        /\ proc[r].stdout = "hi\n"
        /\ ret[r].return_code = -1
        /\ ret[r].stdout = ""

\* C5: a returned result has status 'success' exactly when its return_code is
\* 0; every other code, negative ones and -1 included, gives 'error'; a
\* 'success' result has error_message None.
C5_SuccessIffZero ==
    \A r \in Runs :
        ret[r] # NoResult =>
            /\ ret[r].status \in {"success", "error"}
            /\ ret[r].status = "success" <=> ret[r].return_code = 0
            /\ ret[r].status = "success" => ret[r].error_message = None

C5_Witness ==
    \E r1 \in Runs :
        /\ Returned(r1)
        /\ obs[r1].outcome = "completed"
        /\ proc[r1].returncode = 1
        /\ ret[r1].status = "error"

\* C6: a call with timeout N that hits its deadline returns status 'error',
\* return_code -1, empty stdout, and the text 'Script execution timed out
\* after N seconds' in both stderr and error_message.
C6_TimeoutResult ==
    \A r \in Runs :
        Returned(r) /\ obs[r].outcome = "timeout" =>
            Core(ret[r]) =
                [status |-> "error",
                 stdout |-> "",
                 stderr |-> TimeoutText(call[r].timeout),
                 return_code |-> -1,
                 error_message |-> Some(TimeoutText(call[r].timeout))]

C6_Witness ==
    \E r \in Runs :
        /\ Returned(r)
        /\ obs[r].outcome = "timeout"
        /\ call[r].timeout = 2
        /\ ret[r].stderr = "Script execution timed out after 2 seconds"

\* C7: a child that ran to completion with exit code n # 0 gives status
\* 'error', return_code n, and stdout and stderr as they were captured.
C7_NonZeroExit ==
    \A r \in Runs :
        Returned(r) /\ obs[r].outcome = "completed" /\ proc[r].returncode # 0 =>
            /\ ret[r].status = "error"
            /\ ret[r].return_code = proc[r].returncode
            /\ ret[r].stdout = proc[r].stdout
            /\ ret[r].stderr = proc[r].stderr

C7_Witness ==
    \E r \in Runs :
        /\ Returned(r)
        /\ obs[r].outcome = "completed"
        /\ proc[r].returncode = -1
        /\ ret[r].return_code = -1
        /\ ret[r].stdout = "Starting script\n"

\* C8 as stated: after a completed run with exit code n # 0 the error_message
\* is a text synthesized from n (it contains n), whatever stderr holds.
C8_MessageNamesExitCode ==
    \A r \in Runs :
        Returned(r) /\ obs[r].outcome = "completed" /\ proc[r].returncode # 0 =>
            /\ ret[r].error_message # None
            /\ Contains(ret[r].error_message[1], ToString(proc[r].returncode))

\* C8 amended: after a completed run with exit code n # 0 the error_message
\* is exactly the captured stderr text.
C8_MessageIsStderr ==
    \A r \in Runs :
        Returned(r) /\ obs[r].outcome = "completed" /\ proc[r].returncode # 0 =>
            ret[r].error_message = Some(proc[r].stderr)

C8_Witness ==
    \E r \in Runs :
        /\ Returned(r)
        /\ obs[r].outcome = "completed"
        /\ proc[r].returncode = 1
        /\ proc[r].stderr = ""
        /\ ret[r].error_message = Some("")

\* C9: when the child cannot be started the call returns without having
\* waited: status 'error', return_code -1, empty stdout, stderr the exception
\* detail and error_message 'Failed to execute script: {detail}'.
C9_LaunchFailure ==
    \A r \in Runs :
        Returned(r) /\ obs[r].outcome = "launch_failed" =>
            /\ Core(ret[r]) =
                  [status |-> "error",
                   stdout |-> "",
                   stderr |-> obs[r].detail,
                   return_code |-> -1,
                   error_message |->
                       Some("Failed to execute script: " \o obs[r].detail)]
            /\ ~obs[r].waited
            /\ ~obs[r].kill_issued
            /\ proc[r].state = "none"

C9_Witness ==
    \E r \in Runs :
        /\ Returned(r)
        /\ obs[r].outcome = "launch_failed"
        /\ ret[r].stderr = "[Errno 13] Permission denied"
        /\ ret[r].error_message =
              Some("Failed to execute script: [Errno 13] Permission denied")

\* C10: an OSError from os.unlink is swallowed: nothing is raised and the
\* call returns the value its return statement had produced.
C10_CleanupFailureSwallowed ==
    \A r \in Runs :
        Done(r) /\ obs[r].unlink_failed =>
            /\ raised[r] = NoExc
            /\ ret[r] # NoResult
            /\ ret[r] = pending[r]

C10_Witness ==
    \E r \in Runs :
        /\ Done(r)
        /\ obs[r].unlink_failed
        /\ fs[temp[r]].exists
        /\ ret[r].status = "success"
        /\ ret[r].stdout = "hi\n"

\* the texts a result may carry in stdout and in stderr
ResultStdouts == {""} \cup {o.stdout : o \in Outputs}
ResultStderrs ==
    {o.stderr : o \in Outputs}
        \cup {TimeoutText(t) : t \in Timeouts}
        \cup {Str(e) : e \in LaunchErrors \cup CaptureErrors \cup ReadErrors
                              \cup CreateErrors \cup WriteErrors}
        \cup {"File not found: " \o f : f \in UserPaths}

\* C11: every returned result, on every path, has the keys 'stdout' and
\* 'stderr' and they hold strings (possibly empty), never null.
C11_StreamsPresent ==
    \A r \in Runs :
        ret[r] # NoResult =>
            /\ {"stdout", "stderr"} \subseteq DOMAIN ret[r]
            /\ ret[r].stdout \in ResultStdouts
            /\ ret[r].stderr \in ResultStderrs

C11_Witness ==
    \E r \in Runs :
        /\ Returned(r)
        /\ obs[r].outcome = "not_found"
        /\ ret[r].stdout = ""
        /\ ret[r].stderr = "File not found: /does/not/exist.py"

\* C12: execute_file on a path that does not exist returns status 'error',
\* return_code -1 and 'File not found: {path}' in error_message and stderr;
\* it creates no temporary file and launches no child.
C12_MissingFile ==
    \A r \in Runs :
        Returned(r) /\ call[r].entry = "execute_file"
                    /\ ~fs[call[r].file_path].exists =>
            /\ Core(ret[r]) =
                  [status |-> "error",
                   stdout |-> "",
                   stderr |-> "File not found: " \o call[r].file_path,
                   return_code |-> -1,
                   error_message |->
                       Some("File not found: " \o call[r].file_path)]
            /\ obs[r].created = 0
            /\ temp[r] = ""
            /\ proc[r].state = "none"

C12_Witness ==
    \E r \in Runs :
        /\ Returned(r)
        /\ call[r].entry = "execute_file"
        /\ call[r].file_path = MissingFile
        /\ ret[r].error_message = Some("File not found: /does/not/exist.py")
        /\ proc[r] = NoProc

----------------------------------------------------------------------------
(* Calls that run side by side *)

\* the call holds a temporary file it has created and not yet cleaned up
Owns(r) == pc[r] \in {"write", "launch", "wait", "kill", "reap", "cleanup"}

\* the script text has been written to the call's temporary file
Staged(r) == pc[r] \in {"launch", "wait", "kill", "reap", "cleanup"}

\* C14: calls of safe_script_runner and execute_script that run at the same
\* time never share a temporary file: two calls that hold one hold different
\* paths, a call's file keeps that call's script text until the call's own
\* cleanup, every child runs the file and text of its own call, and a result
\* that reports a finished child reports the exit code and output of the
\* call's own child.
C14_Isolated ==
    /\ \A r1, r2 \in ConcRuns :
          (r1 # r2 /\ Owns(r1) /\ Owns(r2)) => temp[r1] # temp[r2]
    /\ \A r \in ConcRuns :
          /\ Staged(r) =>
                /\ fs[temp[r]].exists
                /\ fs[temp[r]].data = call[r].script_content
          /\ proc[r].state # "none" =>
                /\ proc[r].path = temp[r]
                /\ proc[r].src = call[r].script_content
          /\ (Returned(r) /\ obs[r].outcome = "completed") =>
                /\ ret[r].return_code = proc[r].returncode
                /\ ret[r].stdout = proc[r].stdout
                /\ ret[r].stderr = proc[r].stderr

\* two children of different calls run at once, from the same script text
C14_Witness ==
    \E r1, r2 \in ConcRuns :
       /\ r1 # r2
       /\ pc[r1] = "wait" /\ proc[r1].state = "running"
       /\ pc[r2] = "wait" /\ proc[r2].state = "running"
       /\ call[r1].script_content = call[r2].script_content
       /\ temp[r1] # temp[r2]

\* the part of a call's course that its environment decides
Environment(r) ==
    [outcome |-> obs[r].outcome, detail |-> obs[r].detail,
     unlink_failed |-> obs[r].unlink_failed,
     state |-> proc[r].state, returncode |-> proc[r].returncode,
     stdout |-> proc[r].stdout, stderr |-> proc[r].stderr]

\* the staging, launch and cleanup steps a call has taken
Steps(r) ==
    [created |-> obs[r].created, unlinked |-> obs[r].unlinked,
     unlink_calls |-> obs[r].unlink_calls, waited |-> obs[r].waited,
     kill_issued |-> obs[r].kill_issued, src |-> proc[r].src]

\* C15: script_name has no effect: two finished calls of the same entry point
\* with the same script text and timeout that differ only in script_name, and
\* whose environment behaved the same, return the same result (or raise the
\* same exception) and have taken the same staging, launch and cleanup steps.
C15_ScriptNameIgnored ==
    \A r1, r2 \in ConcRuns :
       ( /\ Done(r1) /\ Done(r2)
         /\ call[r1].entry = call[r2].entry
         /\ call[r1].script_content = call[r2].script_content
         /\ call[r1].timeout = call[r2].timeout
         /\ call[r1].script_name # call[r2].script_name
         /\ Environment(r1) = Environment(r2) )
       => /\ ret[r1] = ret[r2]
          /\ raised[r1] = raised[r2]
          /\ Steps(r1) = Steps(r2)

\* two calls under different names have both timed out, with equal results
C15_Witness ==
    \E r1, r2 \in ConcRuns :
       /\ Returned(r1) /\ Returned(r2)
       /\ call[r1].entry = call[r2].entry
       /\ call[r1].script_name = "script.py"
       /\ call[r2].script_name # "script.py"
       /\ obs[r1].outcome = "timeout" /\ obs[r2].outcome = "timeout"
       /\ Environment(r1) = Environment(r2)
       /\ ret[r1] = ret[r2]

\* C16: safe_script_runner and ScriptRunner.execute_script are one design: a
\* finished call of each, with the same script text and timeout and the same
\* behaviour of the environment, agree on status, stdout, stderr, return_code
\* and error_message (or raise the same exception), have taken the same
\* staging, launch and cleanup steps, and the function's result has exactly
\* one field more than the method's, execution_time.
C16_TwoImplementationsAgree ==
    \A r1, r2 \in ConcRuns :
       ( /\ Done(r1) /\ Done(r2)
         /\ call[r1].entry = "safe_script_runner"
         /\ call[r2].entry = "execute_script"
         /\ call[r1].script_content = call[r2].script_content
         /\ call[r1].timeout = call[r2].timeout
         /\ Environment(r1) = Environment(r2) )
       => /\ raised[r1] = raised[r2]
          /\ Returned(r1) <=> Returned(r2)
          /\ Steps(r1) = Steps(r2)
          /\ Returned(r1) =>
                /\ Core(ret[r1]) = Core(ret[r2])
                /\ DOMAIN ret[r2] = CoreKeys
                /\ DOMAIN ret[r1] = CoreKeys \cup {"execution_time"}

\* one call of each implementation has returned after its child exited with
\* code 1, and the two results agree
C16_Witness ==
    \E r1, r2 \in ConcRuns :
       /\ Returned(r1) /\ Returned(r2)
       /\ call[r1].entry = "safe_script_runner"
       /\ call[r2].entry = "execute_script"
       /\ obs[r1].outcome = "completed" /\ obs[r2].outcome = "completed"
       /\ ret[r1].return_code = 1 /\ ret[r2].return_code = 1
       /\ Core(ret[r1]) = Core(ret[r2])
       /\ "execution_time" \in DOMAIN ret[r1] \ DOMAIN ret[r2]

\* C20: whenever a call returns after its child has exited, error_message is
\* decided by the exit code alone: it is the child's captured stderr text,
\* whole and unchanged, when the exit code is not 0, and None when the exit
\* code is 0, whatever the child wrote to stderr.
C20_ErrorMessageFromStderr ==
    \A r \in Runs :
       (Returned(r) /\ obs[r].outcome = "completed") =>
          ret[r].error_message =
             IF proc[r].returncode # 0 THEN Some(proc[r].stderr) ELSE None

\* a child wrote a traceback to stderr and still exited with code 0: the
\* method's result keeps the text in stderr and has no error_message
C20_Witness ==
    \E r \in Runs :
       /\ Returned(r) /\ obs[r].outcome = "completed"
       /\ call[r].entry = "execute_script"
       /\ proc[r].returncode = 0
       /\ Contains(proc[r].stderr, "ValueError: boom")
       /\ ret[r].stderr = proc[r].stderr
       /\ ret[r].error_message = None

\* C17: under a finite timeout every call comes to an end whatever its child
\* does: a call that has started never stays unfinished, a call that has
\* reached the launch of its child returns a result, and a call whose deadline
\* fired returns the timeout result for its own timeout instead of waiting on
\* for the child.
C17_EveryCallReturns ==
    \A r \in Runs :
       /\ (pc[r] # "idle") ~> Done(r)
       /\ (pc[r] \in {"launch", "wait", "kill"}) ~> Returned(r)
       /\ [](Returned(r) /\ obs[r].kill_issued =>
                ret[r].stderr = TimeoutText(call[r].timeout))

\* a call has returned the timeout result for a child that never exited by
\* itself: it was still running when the caller killed it
C17_Witness ==
    \E r \in Runs :
       /\ Returned(r)
       /\ obs[r].outcome = "timeout"
       /\ obs[r].kill_issued
       /\ proc[r].returncode = SIGKILLED
       /\ ret[r].return_code = -1
       /\ ret[r].stderr = TimeoutText(call[r].timeout)

----------------------------------------------------------------------------
(* The callers of the engine *)

\* a route has answered request r
Answered(r) ==
    /\ caller[r].layer \in {"run_script", "api_run_script"}
    /\ caller[r].reply # NoReply

\* the child of request r ended with a non-zero exit code
ExitedNonZero(r) == obs[r].outcome = "completed" /\ proc[r].returncode # 0

\* C18 as stated: neither POST /run/<script_name> nor POST
\* /api/scripts/<name>/run answers a run that exited non-zero or timed out
\* with a status outside 4xx/5xx.
C18_FailureNever2xx ==
    \A r \in Runs :
       (Answered(r) /\ (ExitedNonZero(r) \/ obs[r].outcome = "timeout")) =>
          caller[r].reply.status_code \in 400..599

\* C18 amended: both routes answer a timed-out run with HTTP 500 and an error
\* text; POST /run/<script_name> answers exit code n # 0 with HTTP 500 and
\* 'Script failed with exit code n'; POST /api/scripts/<name>/run answers exit
\* code n # 0 with HTTP 200 and a body that reports the failure: status
\* 'error', return_code n and error_message 'Script exited with code n'.
C18_WebAnswers ==
    \A r \in Runs :
       Answered(r) =>
          LET reply == caller[r].reply
              n == proc[r].returncode
          IN /\ obs[r].outcome = "timeout" =>
                   /\ reply.status_code = 500
                   /\ reply.body.error = "Script execution timed out after 30 seconds"
             /\ (ExitedNonZero(r) /\ caller[r].layer = "run_script") =>
                   /\ reply.status_code = 500
                   /\ reply.body.error = "Script failed with exit code " \o ToString(n)
             /\ (ExitedNonZero(r) /\ caller[r].layer = "api_run_script") =>
                   /\ reply.status_code = 200
                   /\ reply.body.status = "error"
                   /\ reply.body.return_code = n
                   /\ reply.body.error_message = "Script exited with code " \o ToString(n)

\* the API route has answered a run that exited with code 1 with HTTP 200
C18_Witness ==
    \E r \in Runs :
       /\ Answered(r)
       /\ caller[r].layer = "api_run_script"
       /\ ExitedNonZero(r) /\ proc[r].returncode = 1
       /\ caller[r].reply.status_code = 200
       /\ caller[r].reply.body.status = "error"

\* C19: cli.run_script returns 0 exactly when the result of execute_file has
\* status 'success'; for an 'error' result it returns a non-zero code, the
\* result's return_code, or 1 when the return_code is -1; and when the named
\* script is not among the scripts found it returns 1 and has called nothing:
\* no engine call, no temporary file, no child.
C19_CliExitCode ==
    \A r \in Runs :
       (caller[r].layer = "cli" /\ pc[r] = "exited") =>
          LET code == caller[r].reply.code IN
          IF caller[r].name \notin find_python_scripts(fs)
          THEN /\ code = 1
               /\ call[r] = NoCall
               /\ ret[r] = NoResult
               /\ proc[r] = NoProc
               /\ obs[r] = NoObs
          ELSE /\ ret[r] # NoResult
               /\ code = 0 <=> ret[r].status = "success"
               /\ ret[r].status = "error" =>
                     /\ code # 0
                     /\ code = IF ret[r].return_code = -1 THEN 1
                               ELSE ret[r].return_code

\* the command has returned 1 for a script that timed out (return_code -1)
C19_Witness ==
    \E r \in Runs :
       /\ caller[r].layer = "cli" /\ pc[r] = "exited"
       /\ obs[r].outcome = "timeout"
       /\ ret[r].status = "error" /\ ret[r].return_code = -1
       /\ caller[r].reply = Exit(1)

----------------------------------------------------------------------------
(* Configuration of the runner *)

\* C21: a ScriptRunner constructed with a timeout of zero or less runs its
\* scripts under the default timeout of 30 seconds: the timeout in force for
\* the call is 30, and a timeout result names 30 seconds.
C21_InvalidTimeoutFallsBack ==
    \A r \in Runs :
       (call[r] # NoCall /\ call[r].configured <= 0) =>
          /\ call[r].timeout = DefaultTimeout
          /\ (Returned(r) /\ obs[r].outcome = "timeout") =>
                ret[r].stderr = TimeoutText(DefaultTimeout)

----------------------------------------------------------------------------
(* The sentinel return code *)

\* C22: return_code -1 is out-of-band: a returned result has return_code -1
\* only when there is no exit code of a child to report (timeout, failure to
\* launch or to collect, file not found, failure to read or to stage); a
\* result for a child that terminated by itself never has return_code -1.
C22_SentinelOutOfBand ==
    \A r \in Runs :
       (Returned(r) /\ ret[r].return_code = -1) =>
          obs[r].outcome # "completed"

----------------------------------------------------------------------------
(* Standard input of the child *)

\* C23: the child is launched with no standard input: its standard input is
\* never the caller's, so a child that reads input never waits for the
\* caller's input and never consumes it.
C23_NoStdin ==
    \A r \in Runs :
       proc[r].state # "none" =>
          /\ proc[r].stdin # "inherited"
          /\ proc[r].input \notin {"blocked", "read"}

----------------------------------------------------------------------------
(* The caller's file *)

\* C24: execute_file leaves the caller's file alone: at every moment of the
\* call and after it has returned, on any path, the file at the given path is
\* as it was before the call (still there, with the same content), and the
\* call has removed no more files than it has created.
C24_CallerFileUntouched ==
    \A r \in Runs :
       call[r].entry = "execute_file" =>
          /\ fs[call[r].file_path] = InitialFiles[call[r].file_path]
          /\ call[r].file_path # temp[r]
          /\ obs[r].unlinked <= obs[r].created

\* execute_file has returned the timeout result for an existing file: its
\* temporary copy has been removed and the caller's file is still in place
C24_Witness ==
    \E r \in Runs :
       /\ Returned(r)
       /\ call[r].entry = "execute_file"
       /\ obs[r].outcome = "timeout"
       /\ obs[r].unlinked = 1
       /\ ~fs[temp[r]].exists
       /\ fs[call[r].file_path].exists
       /\ fs[call[r].file_path].data = call[r].script_content

\* a request to the API route for a test file or for the application itself
ApiForProtected(r) ==
    /\ caller[r].layer = "api_run_script"
    /\ StartsWith(caller[r].name, "test_") \/ caller[r].name = "app"

\* C25 as stated: every request to POST /api/scripts/<name>/run for a name
\* that starts with 'test_' or equals 'app' is answered with status 400 and
\* the error 'This script cannot be executed via API', and starts no child.
C25_ProtectedAlways400 ==
    \A r \in Runs :
       ApiForProtected(r) =>
          /\ proc[r].state = "none"
          /\ caller[r].reply =
                Http(400, [error |-> "This script cannot be executed via API"])

\* C25 amended: such a request never starts a child; it is answered with
\* status 400 and 'This script cannot be executed via API' when the file
\* <name>.py exists, and with status 404 and 'Script not found: <name>.py'
\* when it does not, because the route checks existence first.
C25_ProtectedNeverRun ==
    \A r \in Runs :
       ApiForProtected(r) =>
          /\ proc[r].state = "none"
          /\ caller[r].reply =
                IF fs[ScriptPath(caller[r].name)].exists
                THEN Http(400, [error |-> "This script cannot be executed via API"])
                ELSE Http(404, [error |-> "Script not found: "
                                          \o ScriptFile(caller[r].name)])

\* the API route has rejected an existing test file with status 400
C25_Witness ==
    \E r \in Runs :
       /\ ApiForProtected(r)
       /\ caller[r].name = "test_app"
       /\ fs[ScriptPath("test_app")].exists
       /\ caller[r].reply.status_code = 400
       /\ proc[r].state = "none"

----------------------------------------------------------------------------
(* The todo store *)

\* the list of todos that todos.json holds
Stored == load_todos(todos_json)

C26_AtomicReplace ==
    /\ todos_json.exists => todos_json.complete
    /\ \A w \in Threads :
          (worker[w].op = "load" /\ worker[w].pc = "done") =>
             worker[w].result \in worker[w].candidates

\* C29: save_todos calls close only on a descriptor it still owns: when it
\* has returned or raised, it has not called os.close on a number that it had
\* closed before.
C29_ClosesOwnDescriptor ==
    \A w \in Threads :
       worker[w].op = "save" => ~worker[w].closed_unowned

----------------------------------------------------------------------------
(* The order of the steps of one run *)

\* C27: within one run the steps happen in the order create, write, launch,
\* child terminated, delete: a child starts only once per run, only from the
\* launch step and only when the temporary file holds the whole text, which
\* is the text the child then runs; and a file is removed only when the child
\* that runs it, if one was started, has terminated and has been reaped, on
\* the timeout path as on any other; no file is removed that was not created.
C27_StepOrder ==
    [][\A r \in Runs :
          /\ (proc'[r].state = "running" /\ proc[r].state # "running") =>
                /\ proc[r].state = "none"
                /\ pc[r] = "launch"
                /\ obs[r].created = 1
                /\ fs[temp[r]] = File(call[r].script_content)
                /\ proc'[r].path = temp[r]
                /\ proc'[r].src = call[r].script_content
          /\ (proc[r].state # "none" /\ fs[proc[r].path].exists
                 /\ ~fs'[proc[r].path].exists) =>
                proc[r].state = "reaped"
          /\ obs'[r].unlinked > obs[r].unlinked =>
                /\ pc[r] = "cleanup"
                /\ obs[r].created = 1 /\ obs[r].unlinked = 0
                /\ proc[r].state \in {"none", "reaped"}]_vars

\* a run has gone through all five steps on the timeout path: the file was
\* created and written, the child ran the whole text, was killed and reaped,
\* and the file is gone
C27_Witness ==
    \E r \in Runs :
       /\ pc[r] = "done"
       /\ obs[r].created = 1
       /\ obs[r].unlinked = 1
       /\ obs[r].outcome = "timeout"
       /\ proc[r].src = call[r].script_content
       /\ proc[r].state = "reaped"
       /\ ~fs[proc[r].path].exists

----------------------------------------------------------------------------
(* The error messages of execute_file *)

NotFoundText(r) == "File not found: " \o call[r].file_path
ReportsReadFailure(r) ==
    ret[r].error_message # None
       /\ StartsWith(ret[r].error_message[1], "Failed to read file: ")

\* C28: execute_file attributes errors correctly: 'File not found: {path}'
\* is returned only when the given path does not exist, 'Failed to read
\* file: ...' only when reading that path failed, and a failure that comes
\* after the file was read (creating or writing the temporary copy) is
\* returned under neither message.
C28_ErrorsAttributed ==
    \A r \in Runs :
       (Returned(r) /\ call[r].entry = "execute_file") =>
          /\ ret[r].error_message = Some(NotFoundText(r)) =>
                ~fs[call[r].file_path].exists
          /\ ReportsReadFailure(r) => obs[r].outcome = "read_failed"
          /\ obs[r].outcome \in {"create_failed", "write_failed"} =>
                /\ ret[r].error_message # Some(NotFoundText(r))
                /\ ~ReportsReadFailure(r)

====
